---------------------------- MODULE Spec2Model ----------------------------
(***************************************************************************)
(* Interaction and animation state engine of the jewel-tree scene          *)
(* (src/components/JewelTreeScene.tsx with the App component that owns     *)
(* the React state).                                                       *)
(*                                                                         *)
(* Conventions                                                             *)
(*  - A handler of the program is an operator from a state record to a     *)
(*    state record (the record has one field per variable), so that the    *)
(*    handlers that call each other (animate -> predictWebcam ->           *)
(*    triggerEpicSequence) compose as the code composes them.  The         *)
(*    actions install the record a handler returns.                        *)
(*  - React state (appState, inputMode) is written by the setters at once; *)
(*    the refs that mirror it (appStateRef, inputModeRef) are written by   *)
(*    the mirror effect, which is the action Commit.                       *)
(*  - Date.now() is read only in differences with a stored time stamp.     *)
(*    A time stamp T is kept as the time elapsed since T ("since..."),     *)
(*    saturated at the largest value the code compares it with; every      *)
(*    handler that runs takes the time elapsed since the previous one.     *)
(*  - victoryTimer, threeTimer and epicTimer are only ever reset to 0 or   *)
(*    incremented by a fixed step (0.1, 0.1, 0.016).  They are kept as the *)
(*    number of increments since the last reset; the thresholds are the    *)
(*    increment counts at which the IEEE double sum first passes the       *)
(*    comparison of the code.                                              *)
(***************************************************************************)
EXTENDS Integers, Sequences, FiniteSets, TLC

\* ------------------------------------------------------------------ bounds
\* Photo cards the session may load.
MaxPhotos == 1
EpicShake == 30
BurstShake == 50
MaxCards == 2
FramesPerTick == 6
\* Pointers the touch surface may report at once.
MaxPointers == 5
\* Animation frames that run between two environment events.
FramesPerStep == 200
\* Wall-clock time (ms) that passes between two handler runs: 0 or this.
TimeStep == 1500
\* Coordinates are kept in 1/Unit of a scene unit.
Unit == 1000
\* A coordinate of a glyph point (scene units).
GlyphCoord == 100
\* Particle updates a particle gets with inputs that vary from tick to tick.
MaxParticleTicks == 3
\* Particle updates of an undisturbed run of easing.
MaxEaseTicks == 120
\* Camera sessions (runs of the MediaPipe effect) of one mounted component.
MaxSessions == 2
\* The points of a glyph cloud and the indexes of the particles of a mesh.
MaxGlyphs == 2
MaxIndex == 3

\* ------------------------------------------------------- program constants
\* predictWebcam: "now - lastPredictionTimeRef.current < 100"
PredictionIntervalMs == 100
\* victoryTimer += 0.1 ; > 2.0 : the 20th sum is 2.0000000000000004
VictoryHoldTicks == 20
\* threeTimer += 0.1 ; > 3.0 : the 30th sum is 3.0000000000000013
ThreeHoldTicks == 30
\* goldModeTimerRef.current = 8.0
GoldModeSeconds == 8
\* epicTimer += 0.016 ; t > 18.0 : the 1126th sum is the first above 18.0
EpicEndTicks == 1126
\* holdTime / 3000
StarHoldMs == 3000
\* Date.now() - startTime < 300, now - lastTapTime < 300
TapMs == 300
\* touchCount === 5
GoldPointers == 5
\* grass: rMax = CONFIG.maxRadius * 1.5, the widest tree position
GrassRadius == 45
\* getShellPosition(65, 6), the outermost scatter shell: radius ...
ShellRadius == 65
\* ... and thickness
ShellThickness == 6
\* item.currentPos.distanceTo(localRepel) < 18.0
RepelRadius == 18
\* pushDir.multiplyScalar(0.2), in tenths
PushTenths == 2
\* const speed = formingText ? 0.08 : 0.05, in percent
EaseRate == 5
TextEaseRate == 8
\* formingText: epicTime > 4.0 (the 250th sum is 4.000000000000003) ...
TextStartTicks == 250
\* ... && epicTime < 16.0 (the 1000th sum is 16.00000000000001)
TextEndTicks == 1000

AppStates == {"tree", "scatter", "zoom"}
InputModes == {"touch", "camera"}

\* A classified hand: the five isExt booleans, the pinch predicate and
\* whether the palm (landmarks[9].x) is more than 0.05 off the centre.
Hands ==
  [thumb : BOOLEAN, index : BOOLEAN, mid : BOOLEAN, ring : BOOLEAN,
   pinky : BOOLEAN, pinch : BOOLEAN, off : BOOLEAN]

VARIABLES
  inputMode,        \* App: useState inputMode
  inputModeRef,     \* inputModeRef.current
  appState,         \* App: useState appState
  appStateRef,      \* appStateRef.current
  statusText,       \* App: useState statusText, a sequence of tags
  photoCount,       \* photoMeshesRef.current.length
  zoomTargetIndex,  \* zoomTargetIndexRef.current
  handLandmarker,   \* handLandmarkerRef.current is non-null
  videoReady,       \* video.readyState >= 2 and videoWidth > 0
  sincePrediction,  \* Date.now() - lastPredictionTimeRef.current
  isPinching,       \* gestureStateRef.current.isPinching
  victoryTimer,     \* gestureStateRef.current.victoryTimer, in 0.1 steps
  threeTimer,       \* gestureStateRef.current.threeTimer, in 0.1 steps
  isGoldMode,       \* isGoldModeRef.current
  goldModeTimer,    \* goldModeTimerRef.current
  isEpicSequence,   \* isEpicSequenceRef.current
  epicTimer,        \* epicTimerRef.current, in 0.016 steps
  hasTriggeredEpic, \* hasTriggeredEpicRef.current
  rainbowStarMode,  \* rainbowStarModeRef.current
  blessingCount,    \* App: useState blessingCount
  holdProgress,     \* App: useState holdProgress, in percent
  isHoldingStar,    \* isHoldingStarRef.current
  sinceStarHold,    \* Date.now() - starHoldStartTimeRef.current, -1: never set
  touches,          \* interactionRef.current.touches
  startCount,       \* interactionRef.current.startPositions.length
  sinceStart,       \* Date.now() - interactionRef.current.startTime
  sinceLastTap,     \* Date.now() - interactionRef.current.lastTapTime
  repulsionPoint,   \* repulsionPointRef.current is non-null
  pointers,         \* fingers on the touch surface (environment)
  lastGesture,      \* history: chain branch of the latest classified hand
  prevGesture,      \* history: chain branch of the classified hand before it
  applied,          \* history: branches the last handler run took
  fired,            \* history: what the last handler run fired
  wishPlays,        \* history: calls of playWeWishYou
  pressPeak,        \* history: most pointers of the current contact
  pressGold,        \* history: gold triggers of the current contact
  tickTarget,       \* history: target the frame that took the input selected
  moved,            \* history: what the last handler run wrote of rotation and camera
  visionFailed,     \* initVision of the current camera session has ended in its catch
  pressToggles,     \* history: mode toggles of two-pointer taps in the current contact
  detectGap,        \* history: the time since the previous prediction at which the last handler run called detectForVideo (-1: it did not)
  pressDragged,     \* history: a one-pointer move event in the contact since all pointers were up
  shakeImpulse,     \* history: tenths written to shakeIntensityRef by the last handler run, 0 if none
  pressTaps,        \* history: tap actions (select-at or burst) since the last start event
  twin,             \* a second run of the scene, a state record
  gapsDiffered,     \* history: the two runs classified after different gaps
  particle,         \* one coordinate of one particle of an instanced mesh
  mount,            \* the effects' closures: camera sessions, frame, timers
  camera            \* cameraRef.current.position.z and the write that set it

vars ==
  << inputMode, inputModeRef, appState, appStateRef, statusText, photoCount,
     zoomTargetIndex, handLandmarker, videoReady, sincePrediction, isPinching,
     victoryTimer, threeTimer, isGoldMode, goldModeTimer, isEpicSequence,
     epicTimer, hasTriggeredEpic, rainbowStarMode, blessingCount, holdProgress,
     isHoldingStar, sinceStarHold, touches, startCount, sinceStart,
     sinceLastTap, repulsionPoint, pointers, lastGesture, prevGesture,
     applied, fired, wishPlays, pressPeak, pressGold, tickTarget,
     moved,
     visionFailed,
     pressToggles,
     detectGap,
     pressDragged,
     shakeImpulse,
     pressTaps,
     twin, gapsDiffered, particle, mount, camera >>

\* The state as one record, for the handlers.
Cur ==
  [ inputMode |-> inputMode, inputModeRef |-> inputModeRef,
    appState |-> appState, appStateRef |-> appStateRef,
    statusText |-> statusText, photoCount |-> photoCount,
    zoomTargetIndex |-> zoomTargetIndex, handLandmarker |-> handLandmarker,
    videoReady |-> videoReady, sincePrediction |-> sincePrediction,
    isPinching |-> isPinching, victoryTimer |-> victoryTimer,
    threeTimer |-> threeTimer, isGoldMode |-> isGoldMode,
    goldModeTimer |-> goldModeTimer, isEpicSequence |-> isEpicSequence,
    epicTimer |-> epicTimer, hasTriggeredEpic |-> hasTriggeredEpic,
    rainbowStarMode |-> rainbowStarMode, blessingCount |-> blessingCount,
    holdProgress |-> holdProgress, isHoldingStar |-> isHoldingStar,
    sinceStarHold |-> sinceStarHold, touches |-> touches,
    startCount |-> startCount, sinceStart |-> sinceStart,
    sinceLastTap |-> sinceLastTap, repulsionPoint |-> repulsionPoint,
    pointers |-> pointers, lastGesture |-> lastGesture,
    prevGesture |-> prevGesture, applied |-> applied, fired |-> fired,
    wishPlays |-> wishPlays,
    pressPeak |-> pressPeak, pressGold |-> pressGold,
    tickTarget |-> tickTarget,
    moved |-> moved,
    visionFailed |-> visionFailed,
    pressToggles |-> pressToggles,
    detectGap |-> detectGap,
    pressDragged |-> pressDragged,
    shakeImpulse |-> shakeImpulse,
    pressTaps |-> pressTaps ]

InstallRun(s) ==
  /\ inputMode' = s.inputMode
  /\ inputModeRef' = s.inputModeRef
  /\ appState' = s.appState
  /\ appStateRef' = s.appStateRef
  /\ statusText' = s.statusText
  /\ photoCount' = s.photoCount
  /\ zoomTargetIndex' = s.zoomTargetIndex
  /\ handLandmarker' = s.handLandmarker
  /\ videoReady' = s.videoReady
  /\ sincePrediction' = s.sincePrediction
  /\ isPinching' = s.isPinching
  /\ victoryTimer' = s.victoryTimer
  /\ threeTimer' = s.threeTimer
  /\ isGoldMode' = s.isGoldMode
  /\ goldModeTimer' = s.goldModeTimer
  /\ isEpicSequence' = s.isEpicSequence
  /\ epicTimer' = s.epicTimer
  /\ hasTriggeredEpic' = s.hasTriggeredEpic
  /\ rainbowStarMode' = s.rainbowStarMode
  /\ blessingCount' = s.blessingCount
  /\ holdProgress' = s.holdProgress
  /\ isHoldingStar' = s.isHoldingStar
  /\ sinceStarHold' = s.sinceStarHold
  /\ touches' = s.touches
  /\ startCount' = s.startCount
  /\ sinceStart' = s.sinceStart
  /\ sinceLastTap' = s.sinceLastTap
  /\ repulsionPoint' = s.repulsionPoint
  /\ pointers' = s.pointers
  /\ lastGesture' = s.lastGesture
  /\ prevGesture' = s.prevGesture
  /\ applied' = s.applied
  /\ fired' = s.fired
  /\ wishPlays' = s.wishPlays
  /\ pressPeak' = s.pressPeak
  /\ pressGold' = s.pressGold
  /\ tickTarget' = s.tickTarget
  /\ moved' = s.moved
  /\ visionFailed' = s.visionFailed
  /\ pressToggles' = s.pressToggles
  /\ detectGap' = s.detectGap
  /\ pressDragged' = s.pressDragged
  /\ shakeImpulse' = s.shakeImpulse
  /\ pressTaps' = s.pressTaps

Min(a, b) == IF a < b THEN a ELSE b

Max(a, b) == IF a > b THEN a ELSE b

\* Statements in sequence: x is computed, then F runs on the result.
Then(x, F(_)) == CHOOSE y \in {F(v) : v \in {x}} : TRUE

\* The state after the component has mounted (useRef / useState initial
\* values, then the mirror effect, which writes the touch status of the tree
\* mode).  The time stamps start at 0, so every difference with Date.now()
\* is above every threshold; starHoldStartTimeRef = 0 is "never set".
InitState ==
  [ inputMode |-> "touch",
    inputModeRef |-> "touch",
    appState |-> "tree",
    appStateRef |-> "tree",
    statusText |-> << "state", "tree" >>,
    photoCount |-> 0,
    zoomTargetIndex |-> -1,
    handLandmarker |-> FALSE,
    videoReady |-> FALSE,
    sincePrediction |-> PredictionIntervalMs,
    isPinching |-> FALSE,
    victoryTimer |-> 0,
    threeTimer |-> 0,
    isGoldMode |-> FALSE,
    goldModeTimer |-> 0,
    isEpicSequence |-> FALSE,
    epicTimer |-> 0,
    hasTriggeredEpic |-> FALSE,
    rainbowStarMode |-> FALSE,
    blessingCount |-> 0,
    holdProgress |-> 0,
    isHoldingStar |-> FALSE,
    sinceStarHold |-> -1,
    touches |-> 0,
    startCount |-> 0,
    sinceStart |-> TapMs,
    sinceLastTap |-> TapMs,
    repulsionPoint |-> FALSE,
    pointers |-> 0,
    lastGesture |-> "none",
    prevGesture |-> "none",
    applied |-> {},
    fired |-> {},
    wishPlays |-> 0,
    pressPeak |-> 0,
    pressGold |-> 0,
    tickTarget |-> "none",
    moved |-> {},
    visionFailed |-> FALSE,
    pressToggles |-> 0,
    detectGap |-> -1,
    pressDragged |-> FALSE,
    shakeImpulse |-> 0,
    pressTaps |-> 0 ]

InitRun ==
  /\ inputMode = InitState.inputMode
  /\ inputModeRef = InitState.inputModeRef
  /\ appState = InitState.appState
  /\ appStateRef = InitState.appStateRef
  /\ statusText = InitState.statusText
  /\ photoCount = InitState.photoCount
  /\ zoomTargetIndex = InitState.zoomTargetIndex
  /\ handLandmarker = InitState.handLandmarker
  /\ videoReady = InitState.videoReady
  /\ sincePrediction = InitState.sincePrediction
  /\ isPinching = InitState.isPinching
  /\ victoryTimer = InitState.victoryTimer
  /\ threeTimer = InitState.threeTimer
  /\ isGoldMode = InitState.isGoldMode
  /\ goldModeTimer = InitState.goldModeTimer
  /\ isEpicSequence = InitState.isEpicSequence
  /\ epicTimer = InitState.epicTimer
  /\ hasTriggeredEpic = InitState.hasTriggeredEpic
  /\ rainbowStarMode = InitState.rainbowStarMode
  /\ blessingCount = InitState.blessingCount
  /\ holdProgress = InitState.holdProgress
  /\ isHoldingStar = InitState.isHoldingStar
  /\ sinceStarHold = InitState.sinceStarHold
  /\ touches = InitState.touches
  /\ startCount = InitState.startCount
  /\ sinceStart = InitState.sinceStart
  /\ sinceLastTap = InitState.sinceLastTap
  /\ repulsionPoint = InitState.repulsionPoint
  /\ pointers = InitState.pointers
  /\ lastGesture = InitState.lastGesture
  /\ prevGesture = InitState.prevGesture
  /\ applied = InitState.applied
  /\ fired = InitState.fired
  /\ wishPlays = InitState.wishPlays
  /\ pressPeak = InitState.pressPeak
  /\ pressGold = InitState.pressGold
  /\ tickTarget = InitState.tickTarget
  /\ moved = InitState.moved
  /\ visionFailed = InitState.visionFailed
  /\ pressToggles = InitState.pressToggles
  /\ detectGap = InitState.detectGap
  /\ pressDragged = InitState.pressDragged
  /\ shakeImpulse = InitState.shakeImpulse
  /\ pressTaps = InitState.pressTaps

\* ---------------------------------------------------------------- particle
\* createInstancedMesh, lines 634-641: a particle gets its tree position,
\* its scatter position and a copy of the tree position as current position.
\* One coordinate of the three is kept (lerp and add work per coordinate);
\* textPos is the coordinate of the glyph point textTargets gives the
\* particle.  state, target, pushed, forming, modes and ticks are the history
\* of the updates: the mode, the target, whether the repulsion has moved the
\* particle and whether the text override applied in the latest update, the
\* modes of all updates and their number; glyph is the index into the glyph
\* cloud the latest update has used (-1: none), guarded whether its
\* "if (!target)" has replaced the target, last what it was given.
NoInputs ==
  [ isEpic |-> FALSE, epicTime |-> 0, type |-> "grass", index |-> 0,
    ready |-> FALSE, gold |-> 0, silver |-> 0 ]

CreateParticle(treePos, scatterPos, textPos) ==
  [ treePos |-> treePos, scatterPos |-> scatterPos, textPos |-> textPos,
    currentPos |-> treePos, target |-> treePos, state |-> "tree",
    pushed |-> FALSE, forming |-> FALSE, modes |-> << >>, ticks |-> 0,
    glyph |-> -1, guarded |-> FALSE, last |-> NoInputs ]

\* The extreme coordinates the creation gives: the grass ring for the tree
\* positions, the outermost shell for the scatter positions.
TreeCoords == {-(GrassRadius * Unit), 0, GrassRadius * Unit}
ShellReach == ShellRadius * Unit + (ShellThickness * Unit) \div 2
ScatterCoords == {-ShellReach, 0, ShellReach}
TextCoords == {GlyphCoord * Unit}

Particles ==
  {CreateParticle(t, sc, x) :
     t \in TreeCoords, sc \in ScatterCoords, x \in TextCoords}

\* ------------------------------------------------------------------ mount
\* One run of the MediaPipe effect (lines 366-498) in camera mode, with the
\* closure's isCancelled, landmarker and stream: pc is the promise initVision
\* awaits ("files", "create", "cam1", "cam2", "video") or how it has ended
\* ("done", "failed", "returned"); landmarker and stream are what has become
\* of the model handle and of the media tracks, closes and stops count the
\* calls of close() and of stop(), requests and rejected the calls of
\* getUserMedia and those of them that were rejected; error is the step
\* whose failure the catch has reported.
\* A setup that asks for the camera first.
NewSessionCameraFirst(secure) ==
  [ pc |-> IF secure THEN "cam1" ELSE "failed", cancelled |-> FALSE,
    landmarker |-> "none", closes |-> 0, stream |-> "none", stops |-> 0,
    requests |-> IF secure THEN 1 ELSE 0, rejected |-> 0,
    error |-> IF secure THEN "none" ELSE "env", late |-> {} ]

NewSession(secure) ==
  [ pc |-> IF secure THEN "files" ELSE "failed", cancelled |-> FALSE,
    landmarker |-> "none", closes |-> 0, stream |-> "none", stops |-> 0,
    requests |-> 0, rejected |-> 0,
    error |-> IF secure THEN "none" ELSE "env", late |-> {} ]

InFlight(x) == x.pc \in {"files", "create", "cam1", "cam2", "video"}

\* The component after its effects have run for the first time: no camera
\* session (live: the session of the current effect run, stale: cancelled
\* sessions whose initVision still awaits, done: cancelled sessions that
\* have ended), the animation frame requested, runScan run once, its timer
\* and the fonts promise pending.  ref is what handLandmarkerRef holds: null,
\* the model of the current setup, or the model of a cancelled one.  ran is the callback that ran last, fault
\* the step at which the last run of animate threw, afterFault whether
\* animate has run after a run that threw.
InitMount ==
  [ mounted |-> TRUE, live |-> {}, stale |-> {}, done |-> {}, started |-> 0,
    raf |-> TRUE, scanTimer |-> TRUE, fontsReady |-> TRUE, scans |-> 1,
    ran |-> "setup", fault |-> "none", afterFault |-> FALSE,
    ref |-> "null" ]

\* camera.position.set(0, 0, 110), line 525: z in thousandths (Unit), the
\* write that set it, the value before that write and the target it eased
\* toward, and the number of writes.
InitCameraZ == 110

InitCamera ==
  [ z |-> InitCameraZ * Unit, last |-> "init", from |-> InitCameraZ * Unit,
    target |-> InitCameraZ * Unit, steps |-> 0 ]

Init ==
  /\ InitRun
  /\ twin = InitState
  /\ gapsDiffered = FALSE
  /\ particle = CreateParticle(0, ShellReach, GlyphCoord * Unit)
  /\ mount = InitMount
  /\ camera = InitCamera

\* The actions of one run leave the second run and the particle alone.
Install(s) ==
  /\ InstallRun(s)
  /\ twin' = twin
  /\ gapsDiffered' = gapsDiffered
  /\ particle' = particle
  /\ mount' = mount
  /\ camera' = camera

\* ------------------------------------------------------------------ clock
\* Date.now() has advanced by d since the previous handler ran.
Elapse(s, d) ==
  [s EXCEPT
     !.sincePrediction = Min(@ + d, PredictionIntervalMs),
     !.sinceStarHold = IF @ < 0 THEN @ ELSE Min(@ + d, StarHoldMs),
     !.sinceStart = Min(@ + d, TapMs),
     !.sinceLastTap = Min(@ + d, TapMs)]

TimeSteps == {0, TimeStep, 2 * TimeStep}

\* A handler starts to run, d after the previous one: the histories of the
\* run are empty.
Begin(s, d) ==
  [Elapse(s, d) EXCEPT !.applied = {}, !.fired = {}, !.tickTarget = "none",
                   !.moved = {}, !.detectGap = -1, !.shakeImpulse = 0]

\* ------------------------------------------------------ epic sequence
TriggerEpicSequenceNoLatch(s) ==
  [s EXCEPT
     !.hasTriggeredEpic = TRUE,
     !.isEpicSequence = TRUE,
     !.epicTimer = 0,
     !.rainbowStarMode = TRUE,
     !.wishPlays = Min(@ + 1, 2),
     !.blessingCount = Min(@ + 1, 2),
     !.holdProgress = 0,
     !.shakeImpulse = EpicShake,
     !.statusText = << "merryChristmas" >>,
     !.fired = @ \cup {"epic"}]

\* The trigger without its setHoldProgress(0).
TriggerEpicSequenceKeepsHold(s) ==
  IF s.hasTriggeredEpic
  THEN s
  ELSE [s EXCEPT
          !.hasTriggeredEpic = TRUE,
          !.isEpicSequence = TRUE,
          !.epicTimer = 0,
          !.rainbowStarMode = TRUE,
          !.wishPlays = @ + 1,
          !.blessingCount = @ + 1,
          !.shakeImpulse = EpicShake,
          !.statusText = << "merryChristmas" >>,
          !.fired = @ \cup {"epic"}]

TriggerEpicSequence(s) ==
  IF s.hasTriggeredEpic
  THEN s
  ELSE [s EXCEPT
          !.hasTriggeredEpic = TRUE,
          !.isEpicSequence = TRUE,
          !.epicTimer = 0,
          !.rainbowStarMode = TRUE,
          !.wishPlays = @ + 1,
          !.blessingCount = @ + 1,
          !.holdProgress = 0,
          !.shakeImpulse = EpicShake,
          !.statusText = << "merryChristmas" >>,
          !.fired = @ \cup {"epic"}]

\* ------------------------------------------------------ gesture classifier
extendedCount(h) ==
  (IF h.thumb THEN 1 ELSE 0) + (IF h.index THEN 1 ELSE 0)
  + (IF h.mid THEN 1 ELSE 0) + (IF h.ring THEN 1 ELSE 0)
  + (IF h.pinky THEN 1 ELSE 0)

isFist(h) == ~h.index /\ ~h.mid /\ ~h.ring /\ ~h.pinky
isOpen(h) == extendedCount(h) = 5
isPointing(h) == h.index /\ ~h.mid /\ ~h.ring /\ ~h.pinky
isVictory(h) == h.index /\ h.mid /\ ~h.ring /\ ~h.pinky
isThreeFinger(h) == h.index /\ h.mid /\ h.ring /\ ~h.pinky
isPinch(h) == h.pinch

\* The branch of the "if (isFist) ... else if ... else" chain that runs.
ChainBranch(h) ==
  IF isFist(h) THEN "fist"
  ELSE IF isOpen(h) THEN "open"
  ELSE IF isPinch(h) THEN "pinch"
  ELSE IF isVictory(h) THEN "victory"
  ELSE IF isThreeFinger(h) THEN "three"
  ELSE "tracing"

\* let status = "AI: "; status += ... : the string the tick builds.
StatusOf(h) ==
  << "AI" >> \o (IF isPointing(h) THEN << "point" >> ELSE << >>)
             \o << ChainBranch(h) >>

\* if (isPointing) { ... }: a statement of its own in front of the chain;
\* it eases cameraRef.current.position.z towards the distance the hand
\* size gives.
PointBranch(s) ==
  [s EXCEPT !.applied = @ \cup {"point"}, !.moved = @ \cup {"zoom"}]

\* The fist branch; a palm more than 0.05 off the centre (h.off) turns the
\* group.
FistBranch(s, h) ==
  [s EXCEPT
     !.appState = IF s.appStateRef # "tree" THEN "tree" ELSE @,
     !.applied = @ \cup {"fist"},
     !.moved = IF h.off THEN @ \cup {"rotate"} ELSE @]

OpenBranch(s) ==
  [s EXCEPT
     !.appState = IF s.appStateRef # "scatter" THEN "scatter" ELSE @,
     !.applied = @ \cup {"open"}]

\* Math.floor(Math.random() * length), rnd being the draw.
RandomIndex(rnd, length) == rnd % length

PinchSelectUnchecked(s, rnd) ==
  [s EXCEPT
     !.zoomTargetIndex = IF s.photoCount > 0
                         THEN RandomIndex(rnd, s.photoCount) ELSE 0,
     !.appState = "zoom",
     !.statusText = << "AI", "randomPhoto" >>,
     !.fired = @ \cup {"select"}]

PinchSelect(s, rnd) ==
  IF s.photoCount > 0
  THEN [s EXCEPT
          !.zoomTargetIndex = RandomIndex(rnd, s.photoCount),
          !.appState = "zoom",
          !.statusText = << "AI", "randomPhoto" >>,
          !.fired = @ \cup {"select"}]
  ELSE [s EXCEPT !.statusText = << "AI", "noPhotos" >>,
                 !.fired = @ \cup {"warn"}]

PinchBranchNoLatch(s, rnd) ==
  [PinchSelect(s, rnd) EXCEPT !.isPinching = TRUE,
                              !.applied = @ \cup {"pinch"}]

PinchBranch(s, rnd) ==
  [(IF ~s.isPinching THEN PinchSelect(s, rnd) ELSE s)
     EXCEPT !.isPinching = TRUE, !.applied = @ \cup {"pinch"}]

VictoryBranchWallClock(s, d) ==
  LET s1 == [s EXCEPT !.victoryTimer = @ + (d \div TimeStep),
                      !.applied = @ \cup {"victory"}]
  IN IF s1.victoryTimer >= VictoryHoldTicks /\ ~s1.isEpicSequence
     THEN [TriggerEpicSequence(s1) EXCEPT !.victoryTimer = 0]
     ELSE s1

VictoryBranchRetrigger(s, d) ==
  LET s1 == [s EXCEPT !.victoryTimer = @ + 1,
                      !.applied = @ \cup {"victory"}]
  IN IF s1.victoryTimer >= VictoryHoldTicks
     THEN [TriggerEpicSequenceNoLatch(s1) EXCEPT !.victoryTimer = 0]
     ELSE s1

\* d, the wall-clock time since the previous handler, is not read.
VictoryBranch(s, d) ==
  LET s1 == [s EXCEPT !.victoryTimer = @ + 1,
                      !.applied = @ \cup {"victory"}]
  IN IF s1.victoryTimer >= VictoryHoldTicks /\ ~s1.isEpicSequence
     THEN [TriggerEpicSequence(s1) EXCEPT !.victoryTimer = 0]
     ELSE s1

ThreeFingerBranch(s) ==
  LET s1 == [s EXCEPT !.threeTimer = @ + 1,
                      !.applied = @ \cup {"three"}]
  IN IF s1.threeTimer >= ThreeHoldTicks
     THEN [s1 EXCEPT !.isGoldMode = TRUE,
                     !.goldModeTimer = GoldModeSeconds,
                     !.fired = @ \cup {"gold"},
                     !.threeTimer = 0]
     ELSE s1

TracingBranchKeepsTimers(s) ==
  [s EXCEPT !.isPinching = FALSE, !.applied = @ \cup {"tracing"}]

TracingBranch(s) ==
  [s EXCEPT !.isPinching = FALSE,
            !.victoryTimer = 0,
            !.threeTimer = 0,
            !.applied = @ \cup {"tracing"}]

\* The classification of one detected hand: lines 1052-1118.
Classified(s, h, rnd, d) ==
  LET s1 == IF isPointing(h) THEN PointBranch(s) ELSE s
      b == ChainBranch(h)
      s2 == CASE b = "fist" -> FistBranch(s1, h)
              [] b = "open" -> OpenBranch(s1)
              [] b = "pinch" -> PinchBranch(s1, rnd)
              [] b = "victory" -> VictoryBranch(s1, d)
              [] b = "three" -> ThreeFingerBranch(s1)
              [] OTHER -> TracingBranch(s1)
  IN [s2 EXCEPT !.statusText = StatusOf(h),
                !.prevGesture = s.lastGesture,
                !.lastGesture = b]

\* What one call of predictWebcam is given: d is the wall-clock time since
\* the previous handler ran, frameNew says video.currentTime has changed,
\* hasHand that result.landmarks is non-empty, hand the detected hand and
\* rnd the draw of Math.random().
VideoInput(d, frameNew, hasHand, hand, rnd) ==
  [d |-> d, frameNew |-> frameNew, hasHand |-> hasHand, hand |-> hand,
   rnd |-> rnd]

RateLimitedNever(s) == FALSE

\* if (now - lastPredictionTimeRef.current < 100) return;
RateLimited(s) == s.sincePrediction < PredictionIntervalMs

SearchingResets(s) ==
  [s EXCEPT !.statusText = << "AI", "searching" >>,
            !.victoryTimer = 0, !.threeTimer = 0, !.isPinching = FALSE]

\* result.landmarks is empty, lines 1129-1131.
Searching(s) == [s EXCEPT !.statusText = << "AI", "searching" >>]

PredictWebcam(s, in) ==
  IF ~s.handLandmarker \/ ~s.videoReady \/ s.inputModeRef # "camera"
  THEN s
  ELSE IF RateLimited(s)
  THEN s
  ELSE LET s1 == [s EXCEPT !.sincePrediction = 0]
           s2 == [s1 EXCEPT !.detectGap = s.sincePrediction]
       IN IF ~in.frameNew
          THEN s1
          ELSE IF in.hasHand
          THEN Classified(s2, in.hand, in.rnd, in.d)
          ELSE Searching(s2)

\* animate, lines 1523-1532: the hold on the star.
StarHoldStep(s) ==
  IF s.isHoldingStar /\ ~s.isEpicSequence
     /\ s.inputModeRef = "touch" /\ s.sinceStarHold >= 0
  THEN LET progress == Min((s.sinceStarHold * 100) \div StarHoldMs, 100)
           s1 == [s EXCEPT !.holdProgress = progress]
       IN IF progress >= 100 /\ ~s1.hasTriggeredEpic
          THEN TriggerEpicSequence(s1)
          ELSE s1
  ELSE s

EpicStepNeverEnds(s) ==
  IF s.isEpicSequence
  THEN [s EXCEPT !.epicTimer = Min(@ + 1, EpicEndTicks)]
  ELSE s

\* animate, lines 1534-1554: the epic sequence advances and ends.
EpicStep(s) ==
  IF s.isEpicSequence
  THEN LET s1 == [s EXCEPT !.epicTimer = @ + 1]
       IN IF s1.epicTimer >= EpicEndTicks
          THEN [s1 EXCEPT !.isEpicSequence = FALSE,
                          !.appState = "tree",
                          !.fired = @ \cup {"epicEnd"}]
          ELSE s1
  ELSE s

\* updateInstancedSystem: const formingText = isEpic && epicTime > 4.0 &&
\* epicTime < 16.0.
FormingText(isEpic, epicTime) ==
  isEpic /\ epicTime >= TextStartTicks /\ epicTime < TextEndTicks

\* updateInstancedSystem, lines 1216-1226: the target a particle is eased
\* to, for the mode the frame has read; participates says that the
\* particle's mesh takes part in the text (gold, silver, gem) and that the
\* glyph cloud of its mesh is not empty.
SelectTarget(state, formingText, participates) ==
  IF formingText /\ participates THEN "text"
  ELSE IF state = "tree" THEN "tree"
  ELSE "scatter"

\* The particle update of one frame, for the mode the frame has read from
\* appStateRef: the target of a gold particle.
UpdateInstancedSystem(s) ==
  [s EXCEPT !.tickTarget =
     SelectTarget(s.appStateRef,
                  FormingText(s.isEpicSequence, s.epicTimer), TRUE)]

\* THREE.Vector3.lerp, one coordinate: this.x += (v.x - this.x) * alpha, the
\* increment cut to the coordinate grid.
Abs(x) == IF x < 0 THEN -x ELSE x
Trunc(x, n) == IF x >= 0 THEN x \div n ELSE -((-x) \div n)

LerpOvershoot(a, b, pct) == a + Trunc((b - a) * (pct + 200), 100)

LerpHalfRate(a, b, pct) == a + Trunc((b - a) * pct, 200)

Lerp(a, b, pct) == a + Trunc((b - a) * pct, 100)

\* The position a selected target stands for.
TargetPos(p, sel) ==
  CASE sel = "text" -> p.textPos
    [] sel = "tree" -> p.treePos
    [] OTHER -> p.scatterPos

\* updateInstancedSystem, lines 1231-1237: the repulsion moves a particle
\* within RepelRadius of the repulsion point by 0.2 away from it
\* (normalize() leaves the zero vector as it is).
Repelled(p, state, isEpic, hasRepel, repelPos) ==
  /\ hasRepel /\ state = "tree" /\ ~isEpic
  /\ Abs(p.currentPos - repelPos) < RepelRadius * Unit
  /\ p.currentPos # repelPos

PushStep == (PushTenths * Unit) \div 10

Push(p, repelPos) ==
  IF p.currentPos > repelPos THEN p.currentPos + PushStep
  ELSE p.currentPos - PushStep

UpdateParticleAliased(p, state, isEpic, epicTime, participates, hasRepel, repelPos) ==
  LET forming == FormingText(isEpic, epicTime)
      sel == SelectTarget(state, forming, participates)
      repelled == Repelled(p, state, isEpic, hasRepel, repelPos)
      p1 == IF repelled
            THEN [p EXCEPT !.currentPos = Push(p, repelPos),
                           !.treePos = Push(p, repelPos)]
            ELSE p
      target == TargetPos(p1, sel)
      pos == Lerp(p1.currentPos, target,
                  IF forming THEN TextEaseRate ELSE EaseRate)
  IN [p1 EXCEPT !.currentPos = pos, !.treePos = pos,
                !.target = target, !.state = state, !.pushed = repelled,
                !.forming = (sel = "text"),
                !.modes = Append(@, state), !.ticks = @ + 1]

\* const participatesInText = (type === 'gold' || ...), line 1186.
MeshTypes == {"trunk", "gold", "silver", "gem", "emerald", "grass"}
participatesInText(type) == type \in {"gold", "silver", "gem"}

\* logicDataRef.current.textTargets: null (ready is FALSE) or the two glyph
\* clouds, arrays of points.
TextTargets(ready, gold, silver) ==
  [ready |-> ready, gold |-> gold, silver |-> silver]

AtOneBased(arr, i) == IF i \in DOMAIN arr THEN {arr[i]} ELSE {}

\* arr[i] of an array: the element, or undefined (no element).
At(arr, i) == IF i + 1 \in DOMAIN arr THEN {arr[i + 1]} ELSE {}

\* Lines 1219-1226: the glyph cloud of a mesh, if the mesh has one and it
\* is not empty.
CloudOf(type, tt) ==
  IF ~tt.ready THEN << >>
  ELSE IF type = "gold" THEN tt.gold
  ELSE IF type \in {"silver", "gem"} THEN tt.silver
  ELSE << >>

GlyphIndexUnwrapped(type, i, tt) == IF Len(CloudOf(type, tt)) > 0 THEN i ELSE -1

GlyphIndex(type, i, tt) ==
  IF Len(CloudOf(type, tt)) > 0 THEN i % Len(CloudOf(type, tt)) ELSE -1

\* updateInstancedSystem, lines 1214-1240: the update of particle i of the
\* mesh of a type.  The target is a point or undefined (no point).
UpdateItem(p, state, isEpic, epicTime, type, i, tt, hasRepel, repelPos) ==
  LET forming == FormingText(isEpic, epicTime)
      g == GlyphIndex(type, i, tt)
      sel == SelectTarget(state, forming,
                          participatesInText(type) /\ g >= 0)
      resolved == CASE sel = "text" -> At(CloudOf(type, tt), g)
                    [] sel = "tree" -> {p.treePos}
                    [] OTHER -> {p.scatterPos}
      target == IF resolved = {} THEN p.currentPos
                ELSE CHOOSE x \in resolved : TRUE
      repelled == Repelled(p, state, isEpic, hasRepel, repelPos)
      pos == IF repelled THEN Push(p, repelPos) ELSE p.currentPos
  IN [p EXCEPT !.currentPos =
                  Lerp(pos, target,
                       IF forming THEN TextEaseRate ELSE EaseRate),
               !.target = target, !.state = state, !.pushed = repelled,
               !.forming = (sel = "text"),
               !.glyph = IF sel = "text" THEN g ELSE -1,
               !.guarded = (resolved = {}),
               !.modes = Append(@, state), !.ticks = @ + 1]

\* The update of a particle whose glyph point is p.textPos: the first of a
\* mesh that takes part in the text (gold) or of one that does not (grass).
UpdateParticle(p, state, isEpic, epicTime, participates, hasRepel, repelPos) ==
  UpdateItem(p, state, isEpic, epicTime,
             IF participates THEN "gold" ELSE "grass", 0,
             TextTargets(TRUE, << p.textPos >>, << p.textPos >>),
             hasRepel, repelPos)

\* One frame of animate.
AnimateFrame(s, in) ==
  Then(Then(Then(PredictWebcam(s, in), StarHoldStep), EpicStep),
       UpdateInstancedSystem)

\* The frames that follow within the same step see no new video frame.
IdleInput(in) == [in EXCEPT !.frameNew = FALSE]

\* n frames of animate, the input arriving with the first.  A frame without
\* input in which the sequence is active changes epicTimer only (predictWebcam
\* returns at the rate limit or at the unchanged video time, the star hold
\* is skipped while the sequence is active): the frames up to the last one
\* of the sequence are taken in one stride.  A frame without input in which
\* no sequence is active repeats the frame before it.
\* tickTarget keeps the target selected by the first frame when that frame
\* has classified a hand.
FramesAfter(s1, in, left) ==
  LET toEnd == EpicEndTicks - s1.epicTimer
      r == IF left = 0 \/ ~s1.isEpicSequence
           THEN s1
           ELSE IF left < toEnd
           THEN [s1 EXCEPT !.epicTimer = @ + left]
           ELSE LET e == EpicStep([s1 EXCEPT !.epicTimer = EpicEndTicks - 1])
                IN IF left > toEnd THEN AnimateFrame(e, IdleInput(in)) ELSE e
  IN [r EXCEPT !.tickTarget =
        IF s1.applied # {} THEN s1.tickTarget ELSE "none"]

AnimateFrames(s, in, n) ==
  CHOOSE r \in {FramesAfter(s1, in, n - 1) : s1 \in {AnimateFrame(s, in)}} :
     TRUE

\* ------------------------------------------------------------ React effects
\* The mirror effect (lines 345-354) and, when inputMode has changed, the
\* cleanup and the start of the MediaPipe effect (lines 366-498).
\* secure: the result of initVision's checks of window.isSecureContext and
\* navigator.mediaDevices (lines 375-381), which throw into its catch.
CommitEnv(s, secure) ==
  LET s1 == [s EXCEPT !.appStateRef = s.appState,
                      !.inputModeRef = s.inputMode,
                      !.statusText =
                         IF s.inputMode = "touch"
                         THEN << "state", s.appState >> ELSE @]
  IN IF s.inputModeRef # s.inputMode
     THEN [s1 EXCEPT !.handLandmarker = FALSE,
                     !.videoReady = FALSE,
                     !.visionFailed = (s.inputMode = "camera" /\ ~secure),
                     !.statusText =
                        IF s.inputMode # "camera" THEN @
                        ELSE IF secure THEN << "init", "loadingModel" >>
                        ELSE << "Error", "env" >>]
     ELSE s1

Commit(s) == CommitEnv(s, TRUE)

CanCommit(s) == s.appStateRef # s.appState \/ s.inputModeRef # s.inputMode

\* initVision has run to its end: the model is stored, the stream plays.
VisionReady(s) ==
  [s EXCEPT !.handLandmarker = TRUE, !.videoReady = TRUE,
            !.statusText = << "AI", "ready" >>]

CanVisionReady(s) ==
  /\ s.inputMode = "camera" /\ s.inputModeRef = "camera"
  /\ ~s.handLandmarker /\ ~s.visionFailed

\* initVision ends in its catch (lines 467-470): the model does not load
\* (step "model"), or both getUserMedia calls are rejected (step "camera",
\* the model is stored in handLandmarkerRef by then).  The catch sets the
\* status text and nothing else.
VisionFailed(s, step) ==
  [s EXCEPT !.handLandmarker = (step = "camera"),
            !.visionFailed = TRUE,
            !.statusText = << "Error", step >>]

\* The uploadedImages effect (lines 356-363) mounts one more photo card.
AddPhoto(s) ==
  [s EXCEPT !.photoCount = @ + 1, !.statusText = << "photoAdded" >>]

\* UIOverlay: the mode switch is rendered unless the mode is ZOOM.
ToggleInputMode(s) ==
  [s EXCEPT !.inputMode = IF @ = "touch" THEN "camera" ELSE "touch"]

CanToggleInputMode(s) == s.appState # "zoom"

\* UIOverlay: the close button is rendered in ZOOM.
CloseButton(s) == [s EXCEPT !.appState = "tree"]

CanCloseButton(s) == s.appState = "zoom"

\* ------------------------------------------------------------- touch source
\* handlePhotoClick: hit is the index of the photo card under the tap,
\* -1 when the ray meets none.
HandlePhotoClick(s, hit) ==
  IF hit >= 0 /\ hit < s.photoCount
  THEN [s EXCEPT !.zoomTargetIndex = hit, !.appState = "zoom",
                 !.fired = @ \cup {"select"}]
  ELSE s

\* What one call of handleTouch is given: the event type, the number of
\* touches the event reports (e.touches.length), whether the ray of a
\* single touch meets the star, and the photo card under the start point.
TouchInput(d, type, count, onStar, hit) ==
  [d |-> d, type |-> type, count |-> count, onStar |-> onStar, hit |-> hit]

TouchStart(s, in) ==
  LET s1 == [s EXCEPT !.sinceStart = 0, !.startCount = in.count,
                      !.pressTaps = 0]
  IN IF in.count = 1 /\ in.onStar
     THEN [s1 EXCEPT !.isHoldingStar = TRUE, !.sinceStarHold = 0]
     ELSE s1

\* handleTouch, lines 1681-1735: a drag of one pointer (by more than a
\* pixel) turns the group and sets the repulsion point, a move of two
\* touches changes the camera distance and turns the group.
TouchMove(s, in) ==
  IF in.count = 1
  THEN [s EXCEPT !.repulsionPoint = TRUE, !.moved = @ \cup {"rotate"},
                 !.pressDragged = TRUE]
  ELSE IF in.count = 2
  THEN [s EXCEPT !.moved = @ \cup {"zoom", "rotate"}]
  ELSE s

\* handleTouch, lines 1759-1763.
GoldOnEnd(s, in) ==
  IF in.count = GoldPointers
  THEN [s EXCEPT !.isGoldMode = TRUE,
                 !.goldModeTimer = GoldModeSeconds,
                 !.fired = @ \cup {"gold"},
                 !.pressGold = Min(@ + 1, 3)]
  ELSE s

TouchEnd(s, in) ==
  LET s1 == [s EXCEPT !.repulsionPoint = FALSE,
                      !.isHoldingStar = FALSE,
                      !.holdProgress = 0]
      s2 == IF s1.sinceStart < TapMs
            THEN IF s1.startCount = 1
                 THEN [(IF s1.sinceLastTap < TapMs
                        THEN [s1 EXCEPT !.fired = @ \cup {"burst"},
                                        !.shakeImpulse = BurstShake]
                        ELSE HandlePhotoClick(s1, in.hit))
                         EXCEPT !.sinceLastTap = 0,
                                !.pressTaps = Min(@ + 1, 2)]
                 ELSE IF s1.startCount = 2
                 THEN [s1 EXCEPT !.appState =
                                    IF @ = "tree" THEN "scatter" ELSE "tree",
                                 !.pressToggles = Min(@ + 1, 3)]
                 ELSE s1
            ELSE s1
  IN GoldOnEnd(s2, in)

HandleTouchUnguarded(s, in) ==
  LET s1 == [s EXCEPT !.touches = in.count]
  IN CASE in.type = "start" -> TouchStart(s1, in)
       [] in.type = "move" -> TouchMove(s1, in)
       [] OTHER -> TouchEnd(s1, in)

\* handleTouch for a touch event (isTouch).
HandleTouch(s, in) ==
  IF s.inputModeRef = "camera"
  THEN s
  ELSE LET s1 == [s EXCEPT !.touches = in.count]
       IN CASE in.type = "start" -> TouchStart(s1, in)
            [] in.type = "move" -> TouchMove(s1, in)
            [] OTHER -> TouchEnd(s1, in)

\* The touch surface: fingers land (start), move, or lift (end); a touch
\* event reports the fingers that are down after it.
TouchSurface(s, in) ==
  [s EXCEPT
     !.pointers = in.count,
     !.pressPeak = IF s.pointers = 0 THEN in.count
                   ELSE IF in.count > @ THEN in.count ELSE @,
     !.pressGold = IF s.pointers = 0 THEN 0 ELSE @,
     !.pressToggles = IF s.pointers = 0 THEN 0 ELSE @,
     !.pressDragged = IF s.pointers = 0 THEN FALSE ELSE @]

CanTouch(s, in) ==
  CASE in.type = "start" -> in.count > s.pointers
    [] in.type = "move" -> in.count = s.pointers /\ in.count > 0
    [] OTHER -> in.count < s.pointers

\* ------------------------------------------------------------------ actions
\* One hand for each gesture of the vocabulary, and the overlaps of the
\* predicates: a pointing hand that pinches, a victory hand that pinches.
Hand(t, i, m, r, p, pinch) ==
  [thumb |-> t, index |-> i, mid |-> m, ring |-> r, pinky |-> p,
   pinch |-> pinch, off |-> FALSE]

FistHand == Hand(FALSE, FALSE, FALSE, FALSE, FALSE, FALSE)
OpenHand == Hand(TRUE, TRUE, TRUE, TRUE, TRUE, FALSE)
PointHand == Hand(FALSE, TRUE, FALSE, FALSE, FALSE, FALSE)
PointPinchHand == Hand(FALSE, TRUE, FALSE, FALSE, FALSE, TRUE)
PinchHand == Hand(FALSE, FALSE, TRUE, TRUE, TRUE, TRUE)
VictoryHand == Hand(FALSE, TRUE, TRUE, FALSE, FALSE, FALSE)
ThreeHand == Hand(FALSE, TRUE, TRUE, TRUE, FALSE, FALSE)
TracingHand == Hand(TRUE, FALSE, FALSE, FALSE, TRUE, FALSE)
\* A fist with the palm off the centre of the picture.
FistOffHand == [FistHand EXCEPT !.off = TRUE]

\* predictWebcam gets past its guards and its rate limit.
CanClassify(s) ==
  /\ s.handLandmarker /\ s.videoReady /\ s.inputModeRef = "camera"
  /\ ~RateLimited(s)

\* n frames of the animation loop; the video delivers nothing,
\* a frame without a hand, or a frame with a hand of HandSet.
AnimateEvery(HandSet, Ds, n) ==
  \E d \in Ds :
     \E s \in {Begin(Cur, d)} :
        \/ \E r \in {AnimateFrames(
                        s, VideoInput(d, FALSE, FALSE, FistHand, 0),
                        n)} : Install(r)
        \/ /\ CanClassify(s)
           /\ \E r \in {AnimateFrames(
                           s, VideoInput(d, TRUE, FALSE, FistHand, 0),
                           n)} : Install(r)
        \/ /\ CanClassify(s)
           /\ \E h \in HandSet, rnd \in 0 .. (MaxCards - 1) :
                /\ rnd = 0 \/ (isPinch(h) /\ rnd < s.photoCount)
                /\ \E r \in {AnimateFrames(
                                s, VideoInput(d, TRUE, TRUE, h, rnd),
                                n)} : Install(r)

\* FramesPerStep frames of the animation loop.
AnimateWith(HandSet, Ds) == AnimateEvery(HandSet, Ds, FramesPerStep)

Animate == AnimateWith(Hands, TimeSteps)

\* A touch event of one of Types with at most MaxCount touches.
TouchTypes == {"start", "move", "end"}

TouchWith(Types, MaxCount, Ds) ==
  \E d \in Ds, type \in Types, count \in 0 .. MaxCount,
     onStar \in BOOLEAN, hit \in -1 .. (MaxCards - 1) :
     LET in == TouchInput(d, type, count, onStar, hit)
     IN /\ CanTouch(Cur, in)
        /\ onStar => (type = "start" /\ count = 1)
        /\ hit >= 0 => (type = "end" /\ hit < photoCount)
        /\ \E r \in {HandleTouch(TouchSurface(Begin(Cur, d), in), in)} :
              Install(r)

TouchEvent == TouchWith(TouchTypes, MaxPointers, TimeSteps)

\* The pointer of the mouse leaves the container: onMouseLeave calls
\* handleTouch(e, 'end') whatever the button's state, which e.buttons
\* reports as before.
MouseLeave ==
  \E d \in {0}, hit \in -1 .. (MaxCards - 1) :
     /\ pointers <= 1
     /\ hit < photoCount
     /\ \E r \in {HandleTouch(Begin(Cur, d),
                                TouchInput(d, "end", pointers, FALSE, hit))} :
           Install(r)

CommitEffects ==
  /\ CanCommit(Cur)
  /\ Install(Commit(Begin(Cur, 0)))

InitVisionDone ==
  /\ CanVisionReady(Cur)
  /\ Install(VisionReady(Begin(Cur, 0)))

InitVisionFails ==
  \E step \in {"model", "camera"} :
     /\ CanVisionReady(Cur)
     /\ Install(VisionFailed(Begin(Cur, 0), step))

\* The effects run where the page is no secure context.
CommitInsecure ==
  /\ inputMode = "camera" /\ inputModeRef # "camera"
  /\ Install(CommitEnv(Begin(Cur, 0), FALSE))

PhotoLoadedUpTo(n) ==
  /\ photoCount < n
  /\ Install(AddPhoto(Begin(Cur, 0)))

PhotoLoaded == PhotoLoadedUpTo(MaxPhotos)

SwitchInputMode ==
  /\ CanToggleInputMode(Cur)
  /\ Install(ToggleInputMode(Begin(Cur, 0)))

ClickClose ==
  /\ CanCloseButton(Cur)
  /\ Install(CloseButton(Begin(Cur, 0)))

Next ==
  \/ Animate
  \/ TouchEvent
  \/ CommitEffects
  \/ CommitInsecure
  \/ InitVisionDone
  \/ InitVisionFails
  \/ PhotoLoaded
  \/ SwitchInputMode
  \/ ClickClose

Spec == Init /\ [][Next]_vars

\* -------------------------------------------------- the epic sequence alone
\* The two sources of the epic trigger: a single pointer that presses and
\* releases (on the star or beside it), and a hand that shows victory or
\* nothing that counts.
EpicHands == {VictoryHand, TracingHand}
ShortSteps == {0, TimeStep}

AnimateEpic == AnimateWith(EpicHands, ShortSteps)
TouchEpic == TouchWith({"start", "end"}, 1, ShortSteps)

NextEpic ==
  \/ AnimateEpic
  \/ TouchEpic
  \/ CommitEffects
  \/ InitVisionDone
  \/ SwitchInputMode

SpecEpic == Init /\ [][NextEpic]_vars

\* The two sources with the victory hand only, the touch events arriving
\* right after the handler before them.  requestAnimationFrame(animate) is
\* the first statement of animate: the animation loop keeps running.
AnimateLive == AnimateWith({VictoryHand}, ShortSteps)

TouchLive == TouchWith({"start", "end"}, 1, {0})

NextEpicLive ==
  \/ AnimateLive
  \/ TouchLive
  \/ CommitEffects
  \/ InitVisionDone
  \/ SwitchInputMode

SpecEpicLive == Init /\ [][NextEpicLive]_vars /\ WF_vars(AnimateLive)

\* ------------------------------------------------- holds and interruptions
\* The camera source with the hand that holds victory and the hands that
\* interrupt the hold (fist, open, nothing that counts).
HoldHands == {VictoryHand, FistHand, OpenHand, TracingHand}

AnimateHold == AnimateWith(HoldHands, ShortSteps)

NextHold ==
  \/ AnimateHold
  \/ CommitEffects
  \/ InitVisionDone
  \/ SwitchInputMode

SpecHold == Init /\ [][NextHold]_vars

\* ------------------------------------------------ victory / tracing in turn
\* The camera source with a hand whose classification differs from the one
\* before it, victory and tracing in turn.
AlternateHands == {VictoryHand, TracingHand}

AnimateAlternate ==
  AnimateWith({h \in AlternateHands : ChainBranch(h) # lastGesture},
              ShortSteps)

NextAlternate ==
  \/ AnimateAlternate
  \/ CommitEffects
  \/ InitVisionDone
  \/ PhotoLoaded
  \/ SwitchInputMode

SpecAlternate == Init /\ [][NextAlternate]_vars

\* ------------------------------------------------------------- the two runs
\* Two runs of the scene get the same events and the same video frames; the
\* wall-clock gaps d1 and d2 before a frame differ, but either both runs get
\* past the rate limit of predictWebcam or neither does.
TwinHands == {VictoryHand, TracingHand}

InstallTwin(s, t, differ) ==
  /\ InstallRun(s)
  /\ twin' = t
  /\ gapsDiffered' = (gapsDiffered \/ differ)
  /\ particle' = particle
  /\ mount' = mount
  /\ camera' = camera

AnimateTwin ==
  \E d1 \in TimeSteps, d2 \in TimeSteps, frameNew \in BOOLEAN,
     hasHand \in BOOLEAN, h \in TwinHands :
     LET a == Begin(Cur, d1)
         b == Begin(twin, d2)
     IN /\ CanClassify(a) <=> CanClassify(b)
        /\ frameNew => CanClassify(a)
        /\ hasHand => frameNew
        /\ ~hasHand => h = TracingHand
        /\ InstallTwin(
             AnimateFrames(a, VideoInput(d1, frameNew, hasHand, h, 0),
                           FramesPerStep),
             AnimateFrames(b, VideoInput(d2, frameNew, hasHand, h, 0),
                           FramesPerStep),
             hasHand /\ d1 # d2)

CommitTwin ==
  /\ CanCommit(Cur)
  /\ InstallTwin(Commit(Begin(Cur, 0)), Commit(Begin(twin, 0)), FALSE)

InitVisionTwin ==
  /\ CanVisionReady(Cur)
  /\ InstallTwin(VisionReady(Begin(Cur, 0)), VisionReady(Begin(twin, 0)),
                 FALSE)

SwitchTwin ==
  /\ CanToggleInputMode(Cur)
  /\ InstallTwin(ToggleInputMode(Begin(Cur, 0)),
                 ToggleInputMode(Begin(twin, 0)), FALSE)

NextTwin ==
  \/ AnimateTwin
  \/ CommitTwin
  \/ InitVisionTwin
  \/ SwitchTwin

SpecTwin == Init /\ [][NextTwin]_vars

\* ------------------------------------------------------- pinch and pointing
\* The camera source with the hands that pinch, point, do both or neither,
\* and the photo cards the pinch selects from.
PinchHands == {PinchHand, PointPinchHand, PointHand, TracingHand, FistHand}

AnimatePinch == AnimateWith(PinchHands, ShortSteps)

NextPinch ==
  \/ AnimatePinch
  \/ CommitEffects
  \/ InitVisionDone
  \/ PhotoLoaded
  \/ SwitchInputMode
  \/ ClickClose

SpecPinch == Init /\ [][NextPinch]_vars

\* ---------------------------------------------------------- the touch source
\* The touch surface with up to MaxPointers fingers, in touch mode.
TouchPress == TouchWith(TouchTypes, MaxPointers, ShortSteps)

NextTouch ==
  \/ TouchPress
  \/ CommitEffects
  \/ PhotoLoaded
  \/ ClickClose

SpecTouch == Init /\ [][NextTouch]_vars

\* ------------------------------------------------------ the two sources
\* Both sources at work in both modes: a hand that holds victory, a
\* pointer that lands, moves and lifts.
SourceHands == {VictoryHand}
AnimateSources == AnimateWith(SourceHands, {TimeStep})
TouchSources == TouchWith(TouchTypes, 1, {0})

NextSources ==
  \/ AnimateSources
  \/ TouchSources
  \/ CommitEffects
  \/ InitVisionDone
  \/ SwitchInputMode

SpecSources == Init /\ [][NextSources]_vars

\* ------------------------------------------------------- the rate limit
\* Frames that follow each other at once, after 1 ms and after 99 ms.
RateSteps == {0, 1, PredictionIntervalMs - 1}
RateHands == {OpenHand, FistHand}
AnimateRate == AnimateWith(RateHands, RateSteps)

NextRate ==
  \/ AnimateRate
  \/ CommitEffects
  \/ InitVisionDone
  \/ SwitchInputMode

SpecRate == Init /\ [][NextRate]_vars

\* ------------------------------------------------------------- gold mode
\* The three-finger hold in camera mode, the loop running on.
GoldHands == {ThreeHand}
AnimateGold == AnimateWith(GoldHands, {TimeStep})

NextGold ==
  \/ AnimateGold
  \/ CommitEffects
  \/ InitVisionDone
  \/ SwitchInputMode

SpecGold == Init /\ [][NextGold]_vars /\ WF_vars(AnimateGold)

\* ------------------------------------------- mounting and unmounting
\* initVision goes on after the promise it awaits has settled (ok: it is
\* fulfilled), cancelled being what it reads of isCancelled.
AfterRejectionNoRetry(x) ==
  IF x.pc \in {"cam1", "cam2"}
  THEN [x EXCEPT !.pc = "failed", !.error = "camera", !.rejected = @ + 1]
  ELSE [x EXCEPT !.pc = "failed", !.error = "model"]

\* The awaited promise is rejected: the first getUserMedia is followed by
\* the second (lines 430-432), anything else ends in the catch of initVision.
AfterRejection(x) ==
  IF x.pc = "cam1"
  THEN [x EXCEPT !.pc = "cam2", !.requests = @ + 1, !.rejected = @ + 1]
  ELSE IF x.pc = "cam2"
  THEN [x EXCEPT !.pc = "failed", !.error = "camera", !.rejected = @ + 1]
  ELSE [x EXCEPT !.pc = "failed", !.error = "model"]

Continue(x, ok, cancelled) ==
  LET acquired == [x EXCEPT !.stream = "live"]
      afterCamera ==
        IF cancelled
        THEN [acquired EXCEPT !.stream = "stopped", !.stops = @ + 1,
                              !.pc = "returned"]
        ELSE [acquired EXCEPT !.pc = "video"]
      created == [x EXCEPT !.landmarker = "open"]
  IN CASE ~ok -> AfterRejection(x)
       [] ok /\ x.pc = "files" ->
            [x EXCEPT !.pc = IF cancelled THEN "returned" ELSE "create"]
       [] ok /\ x.pc = "create" ->
            IF cancelled
            THEN [created EXCEPT !.landmarker = "closed", !.closes = @ + 1,
                                 !.pc = "returned"]
            ELSE [created EXCEPT !.pc = "cam1", !.requests = 1]
       [] ok /\ x.pc \in {"cam1", "cam2"} -> afterCamera
       [] OTHER -> [x EXCEPT !.pc = "done"]

ResolveUnchecked(x, ok) == Continue(x, ok, FALSE)

\* What a step has done that is seen outside the setup: a getUserMedia
\* call, a status text (the one of the catch, or 'AI Ready').  late keeps
\* what a setup has done after its cleanup had run.
Late(x, y) ==
  IF x.cancelled
  THEN [y EXCEPT !.late =
          @ \cup (IF y.requests > x.requests THEN {"request"} ELSE {})
            \cup (IF y.pc \in {"failed", "done"} THEN {"status"} ELSE {})]
  ELSE y

Resolve(x, ok) == Late(x, Continue(x, ok, x.cancelled))

\* The cleanup of the MediaPipe effect, lines 480-495.
Cleanup(x) ==
  [x EXCEPT !.cancelled = TRUE,
            !.landmarker = IF @ = "none" THEN @ ELSE "closed",
            !.closes = IF x.landmarker = "none" THEN @ ELSE @ + 1,
            !.stream = IF @ = "none" THEN @ ELSE "stopped",
            !.stops = IF x.stream = "none" THEN @ ELSE @ + 1]

\* handLandmarkerRef.current = landmarker (line 412), on the way from the
\* creation of the model to the first camera request.
StoreRef(m, x, y) ==
  IF x.pc = "create" /\ y.pc = "cam1"
  THEN [m EXCEPT !.ref = IF y.cancelled THEN "cancelled" ELSE "current"]
  ELSE m

\* The current setup becomes a cancelled one: so does the model it stored.
Orphan(m) == [m EXCEPT !.ref = IF @ = "current" THEN "cancelled" ELSE @]

\* A cleanup that leaves handLandmarkerRef alone.
ClearRefNever(m) == m

\* handLandmarkerRef.current = null in the cleanup (line 492).
ClearRef(m) == [m EXCEPT !.ref = "null"]

\* The cancelled sessions with y among them.
Cancelled(m, y) ==
  [m EXCEPT !.stale = IF InFlight(y) THEN @ \cup {y} ELSE @,
            !.done = IF InFlight(y) THEN @ ELSE @ \cup {y}]

\* The actions of the mount leave the runs and the particle alone.
InstallMount(m) ==
  /\ mount' = m
  /\ InstallRun(Cur)
  /\ UNCHANGED << twin, gapsDiffered, particle, camera >>

\* inputMode becomes 'camera': the effect runs initVision.
VisionEnter ==
  \E secure \in BOOLEAN :
     /\ mount.mounted /\ mount.live = {} /\ mount.started < MaxSessions
     /\ InstallMount([mount EXCEPT !.live = {NewSession(secure)},
                                   !.started = @ + 1,
                                   !.ran = "effect"])

\* The promise a session awaits settles.
VisionResolve ==
  \E x \in mount.live \cup mount.stale, ok \in BOOLEAN :
     /\ InFlight(x)
     /\ x.pc \in {"video"} => ok
     /\ \E y \in {Resolve(x, ok)} :
           InstallMount(
             StoreRef(
               IF x \in mount.live
               THEN [mount EXCEPT !.live = {y}, !.ran = "vision"]
               ELSE Cancelled([mount EXCEPT !.stale = @ \ {x},
                                            !.ran = "vision"], y),
               x, y))

\* inputMode becomes 'touch': the effect's cleanup runs.
VisionLeave ==
  \E x \in mount.live :
     /\ mount.mounted
     /\ InstallMount(
          ClearRef(Orphan(Cancelled([mount EXCEPT !.live = {},
                                                  !.ran = "cleanup"],
                                    Cleanup(x)))))

\* The component unmounts: the cleanups of the MediaPipe effect and of the
\* main effect (lines 1617-1622) run; the latter cancels the animation frame.
Unmount ==
  /\ mount.mounted
  /\ LET m == [mount EXCEPT !.mounted = FALSE, !.raf = FALSE, !.live = {},
                            !.ran = "cleanup"]
     IN \/ /\ mount.live = {}
           /\ InstallMount(ClearRef(Orphan(m)))
        \/ \E x \in mount.live :
              InstallMount(ClearRef(Orphan(Cancelled(m, Cleanup(x)))))

\* The steps of animate's try block at which a run may throw: predictWebcam,
\* the updates of the instanced systems, composer.render().
FaultSteps == {"classify", "ease", "draw"}

\* One run of animate's try block that throws at step at: the steps before
\* it have run, the steps after it are skipped.
AnimateFaulting(s, in, at) ==
  CASE at = "classify" -> s
    [] at = "ease" -> Then(Then(PredictWebcam(s, in), StarHoldStep), EpicStep)
    [] OTHER -> AnimateFrame(s, in)

\* The request of the next frame placed after the steps, outside any try.
RequestFrameLast(m, at) == [m EXCEPT !.raf = (at = "none")]

\* requestAnimationFrame(animate) is the first statement of animate, and
\* the catch of its try block swallows what the steps throw.
RequestFrame(m, at) == [m EXCEPT !.raf = TRUE]

\* The browser takes the callback off its list and calls animate.
AnimateCallback(m, at) ==
  [RequestFrame([m EXCEPT !.raf = FALSE], at) EXCEPT
     !.ran = "frame", !.afterFault = @ \/ m.fault # "none", !.fault = at]

\* What predictWebcam reads of the scene (line 995): the model handle, the
\* video element, which is always rendered, and the input mode, camera
\* while a setup of the MediaPipe effect is current.
SceneRefs(s, m) ==
  [s EXCEPT !.handLandmarker = (m.ref # "null"),
            !.videoReady = TRUE,
            !.inputMode = IF m.live # {} THEN "camera" ELSE "touch",
            !.inputModeRef = IF m.live # {} THEN "camera" ELSE "touch"]

\* The animation frame callback runs with the refs of the scene as the
\* setups have left them; the video has a new frame without a hand, or none.
FrameScene ==
  /\ mount.raf
  /\ \E frameNew \in BOOLEAN :
        LET s == SceneRefs(Begin(Cur, TimeStep), mount)
            in == VideoInput(TimeStep, frameNew, FALSE, FistHand, 0)
        IN /\ \E r \in {AnimateFrames(s, in, FramesPerStep)} : InstallRun(r)
           /\ mount' = AnimateCallback(mount, "none")
  /\ UNCHANGED << twin, gapsDiffered, particle, camera >>

\* The animation frame callback runs: animate requests the next frame and
\* runs its body, which runs to its end or throws at one of its steps.
Frame ==
  /\ mount.raf
  /\ \E at \in FaultSteps \cup {"none"} :
        LET s == Begin(Cur, TimeStep)
            in == VideoInput(TimeStep, FALSE, FALSE, FistHand, 0)
        IN /\ \E r \in {IF at = "none"
                         THEN AnimateFrames(s, in, FramesPerStep)
                         ELSE AnimateFaulting(s, in, at)} : InstallRun(r)
           /\ mount' = AnimateCallback(mount, at)
  /\ UNCHANGED << twin, gapsDiffered, particle, camera >>

\* setTimeout(runScan, 1000) of createTextTargets fires: runScan writes
\* logicDataRef.current.textTargets.
ScanTimerFires ==
  /\ mount.scanTimer
  /\ InstallMount([mount EXCEPT !.scanTimer = FALSE, !.scans = @ + 1,
                                !.ran = "scan"])

\* document.fonts.ready.then(runScan).
FontsReady ==
  /\ mount.fontsReady
  /\ InstallMount([mount EXCEPT !.fontsReady = FALSE, !.scans = @ + 1,
                                !.ran = "scan"])

NextMount ==
  \/ VisionEnter
  \/ VisionResolve
  \/ VisionLeave
  \/ Unmount
  \/ Frame
  \/ ScanTimerFires
  \/ FontsReady

SpecMount == Init /\ [][NextMount]_vars

\* ------------------------------------------------- camera setup that fails
\* The camera session that gets ready or fails at any of its steps, the
\* loop that goes on, one pointer that lands and lifts.
FallbackHands == {OpenHand}
AnimateFallback == AnimateWith(FallbackHands, {TimeStep})
TouchFallback == TouchWith({"start", "end"}, 1, {0})

NextFallback ==
  \/ AnimateFallback
  \/ TouchFallback
  \/ CommitEffects
  \/ CommitInsecure
  \/ InitVisionDone
  \/ InitVisionFails
  \/ SwitchInputMode

SpecFallback == Init /\ [][NextFallback]_vars

\* ------------------------------------------- rotation and camera distance
\* The epic sequence started by the star hold, and the inputs that turn
\* the group or move the camera: fist, point, the drag of one pointer and
\* the move of two.
GuardHands == {FistOffHand, PointHand}
AnimateGuard == AnimateWith(GuardHands, {TimeStep})
TouchGuard == TouchWith({"start", "move"}, 2, {0})

NextGuard ==
  \/ AnimateGuard
  \/ TouchGuard
  \/ CommitEffects
  \/ InitVisionDone
  \/ SwitchInputMode

SpecGuard == Init /\ [][NextGuard]_vars

\* ------------------------------------------------------------ one particle
\* The update of a particle as a function: the particle is any of
\* Particles, every update gets any mode, any phase of the epic sequence
\* (none, before the text, in the text interval), either kind of mesh and
\* any repulsion point.
InitParticle ==
  /\ InitRun
  /\ twin = InitState
  /\ gapsDiffered = FALSE
  /\ particle \in Particles
  /\ mount = InitMount
  /\ camera = InitCamera

RepelCoords == {0, GrassRadius * Unit - Unit}

ParticleTick ==
  \E state \in AppStates, isEpic \in BOOLEAN,
     epicTime \in {0, TextStartTicks}, participates \in BOOLEAN,
     hasRepel \in BOOLEAN, repelPos \in RepelCoords :
     /\ particle.ticks < MaxParticleTicks
     /\ ~isEpic => (epicTime = 0 /\ participates)
     /\ ~hasRepel => repelPos = 0
     /\ particle' = UpdateParticle(particle, state, isEpic, epicTime,
                                   participates, hasRepel, repelPos)
     /\ InstallRun(Cur)
     /\ UNCHANGED << twin, gapsDiffered, mount, camera >>

SpecParticle == InitParticle /\ [][ParticleTick]_vars

\* The particle rests at its tree position, the mode has become FORMATION_B
\* and nothing else happens: updates in mode scatter.
EaseTick ==
  /\ particle.ticks < MaxEaseTicks
  /\ particle' = UpdateParticle(particle, "scatter", FALSE, 0, TRUE, FALSE, 0)
  /\ InstallRun(Cur)
  /\ UNCHANGED << twin, gapsDiffered, mount, camera >>

SpecEase == InitParticle /\ [][EaseTick]_vars

\* ------------------------------------------------------- the glyph clouds
\* A glyph cloud of n points.
Cloud(n) == [k \in 1 .. n |-> (GlyphCoord + k - 1) * Unit]

TextTargetSets ==
  {TextTargets(FALSE, << >>, << >>)}
    \cup {TextTargets(TRUE, Cloud(n), Cloud(m)) :
             n \in 0 .. MaxGlyphs, m \in 0 .. MaxGlyphs}

\* The first update of a particle of any mesh at any index, with any glyph
\* clouds, in any mode, at the ends of the text interval.
GlyphTick ==
  \E state \in AppStates, isEpic \in BOOLEAN,
     epicTime \in {0, TextStartTicks - 1, TextStartTicks,
                   TextEndTicks - 1, TextEndTicks},
     type \in MeshTypes, i \in 0 .. MaxIndex, tt \in TextTargetSets :
     /\ particle.ticks = 0
     /\ ~isEpic => epicTime = 0
     /\ particle' =
          [UpdateItem(particle, state, isEpic, epicTime, type, i, tt,
                      FALSE, 0)
             EXCEPT !.last = [isEpic |-> isEpic, epicTime |-> epicTime,
                              type |-> type, index |-> i,
                              ready |-> tt.ready, gold |-> Len(tt.gold),
                              silver |-> Len(tt.silver)]]
     /\ InstallRun(Cur)
     /\ UNCHANGED << twin, gapsDiffered, mount, camera >>

SpecGlyph == InitParticle /\ [][GlyphTick]_vars

\* ------------------------------------------------------------------- claims
\* The branches of the classifier's chain, and the gestures whose action a
\* classification tick can apply.
ChainBranches == {"fist", "open", "pinch", "victory", "three", "tracing"}

\* C1: the epic sequence is single-flight.  While the sequence is active no
\* step (a completed victory hold, a completed star hold, any other input)
\* resets the elapsed time, increments the blessing counter or plays the
\* musical cue again.
C1_SingleFlight ==
  [][isEpicSequence =>
       /\ epicTimer' >= epicTimer
       /\ blessingCount' = blessingCount
       /\ wishPlays' = wishPlays
       /\ "epic" \notin fired']_vars

\* A victory hold has just completed while the sequence is active.
C1_Witness ==
  /\ isEpicSequence
  /\ "victory" \in applied
  /\ victoryTimer >= VictoryHoldTicks
  /\ blessingCount = 1

\* C2: while the epic sequence is active no step changes the display mode,
\* except the step that deactivates the sequence, which requests
\* FORMATION_A (tree).
C2_NoModeChangeWhileEpic ==
  [][isEpicSequence =>
       \/ appState' = appState
       \/ ~isEpicSequence' /\ appState' = "tree"]_vars

\* C3: once triggered the sequence ends if the animation loop keeps
\* running, and the frame that deactivates it requests FORMATION_A.
C3_SelfTerminates ==
  /\ isEpicSequence ~> ~isEpicSequence
  /\ [][(isEpicSequence /\ ~isEpicSequence') =>
          (appState' = "tree" /\ epicTimer' = EpicEndTicks)]_vars

\* The sequence has run to its end.
C3_Witness ==
  /\ hasTriggeredEpic
  /\ ~isEpicSequence
  /\ "epicEnd" \in fired
  /\ epicTimer = EpicEndTicks
  /\ appState = "tree"

\* C4: after a classification tick whose gesture is not victory the
\* victory hold-timer is zero, and after one whose gesture is not
\* three-finger the three-finger hold-timer is zero.
C4_ResetOnMismatch ==
  (applied \cap ChainBranches # {}) =>
     /\ "victory" \notin applied => victoryTimer = 0
     /\ "three" \notin applied => threeTimer = 0

\* C5: when the classifications alternate between victory and tracing the
\* victory hold-timer never exceeds one increment, both hold-timers are zero
\* after a tracing classification, and the epic sequence is never triggered.
C5_AlternationNeverAccumulates ==
  /\ victoryTimer <= 1
  /\ lastGesture = "tracing" => (victoryTimer = 0 /\ threeTimer = 0)
  /\ ~hasTriggeredEpic
  /\ "epic" \notin fired

\* A victory classification that follows a tracing one that followed a
\* victory one.
C5_Witness ==
  /\ prevGesture = "tracing"
  /\ lastGesture = "victory"
  /\ "victory" \in applied
  /\ victoryTimer = 1
  /\ statusText = << "AI", "victory" >>

\* C6: two runs that perform the same classifications after different
\* wall-clock gaps have the same victory hold-timer after every step and
\* fire the epic trigger in the same step.
C6_SameCount ==
  /\ twin.victoryTimer = victoryTimer
  /\ twin.hasTriggeredEpic = hasTriggeredEpic
  /\ twin.blessingCount = blessingCount
  /\ ("epic" \in twin.fired) <=> ("epic" \in fired)

\* Both runs have just fired the epic trigger, on a victory classification,
\* after classifications whose gaps differed.
C6_Witness ==
  /\ gapsDiffered
  /\ "victory" \in applied
  /\ "epic" \in fired
  /\ "epic" \in twin.fired

\* C7: a classification tick applies the action of exactly one gesture.
C7_ExactlyOneAction ==
  applied # {} => Cardinality(applied) = 1

\* C8: pinch is edge-triggered.  A pinch classification fires the select
\* action (a random photo or the no-photo warning) only if the latch is
\* clear and the classification before it was not a pinch, and the latch is
\* cleared only by a classification that is not a pinch.
C8_EdgeTriggered ==
  [][/\ ("pinch" \in applied' /\ fired' \cap {"select", "warn"} # {})
          => (~isPinching /\ lastGesture # "pinch")
     /\ (isPinching /\ ~isPinching')
          => (applied' # {} /\ "pinch" \notin applied')
     /\ "pinch" \in applied' => isPinching']_vars

\* The second tick of a held pinch: the latch is set, nothing fires.
C8_Witness ==
  /\ prevGesture = "pinch"
  /\ lastGesture = "pinch"
  /\ "pinch" \in applied
  /\ isPinching
  /\ fired = {}

\* C9: the classification tick in which a pinch finds no photo card leaves
\* the display mode and the focus index as they are, and the status text
\* at its end is the "no photos" warning.
C9_NoPhotoWarning ==
  [][("warn" \in fired') =>
       /\ appState' = appState
       /\ zoomTargetIndex' = zoomTargetIndex
       /\ statusText' = << "AI", "noPhotos" >>]_vars

\* C10: when a contact that had five pointers down at once is over, gold
\* mode has been triggered exactly once during the contact.
C10_GoldOncePerPress ==
  (inputModeRef = "touch" /\ pointers = 0 /\ pressPeak = GoldPointers)
     => pressGold = 1

\* C13: when an open hand is classified in FORMATION_A (and no epic
\* sequence runs), the mode is FORMATION_B in that same tick and the
\* particle update of that tick selects the scatter targets.
C13_ScatterInSameTick ==
  [][("open" \in applied' /\ appState = "tree" /\ appStateRef = "tree"
        /\ ~isEpicSequence')
       => (appState' = "scatter" /\ tickTarget' = "scatter")]_vars

\* C11: the per-mode positions of a particle are never modified, and an
\* update outside the text override selects the tree position in mode
\* FORMATION_A and the scatter position otherwise: after A, B, A the target
\* is the original tree position again.
C11_TargetByModeOnly ==
  [][/\ particle'.treePos = particle.treePos
     /\ particle'.scatterPos = particle.scatterPos
     /\ ~particle'.forming =>
          particle'.target = IF particle'.state = "tree"
                             THEN particle.treePos
                             ELSE particle.scatterPos]_vars

\* The mode went A, B, A: the target is the tree position, the current
\* position lags behind.
C11_Witness ==
  /\ particle.modes = << "tree", "scatter", "tree" >>
  /\ ~particle.forming
  /\ particle.target = particle.treePos
  /\ particle.currentPos # particle.treePos

\* C12: no update increases the distance from the current position to the
\* target of that update, the updates in which the repulsion moves the
\* particle included.
C12_NeverFarther ==
  [][Abs(particle'.currentPos - particle'.target)
       <= Abs(particle.currentPos - particle'.target)]_vars

\* C12, amended: an update in which the repulsion does not move the
\* particle does not increase the distance to the target of that update;
\* one in which it does increases the distance by less than the push of 0.2.
C12_NeverFartherUnlessPushed ==
  [][/\ ~particle'.pushed =>
          Abs(particle'.currentPos - particle'.target)
            <= Abs(particle.currentPos - particle'.target)
     /\ particle'.pushed =>
          Abs(particle'.currentPos - particle'.target)
            < Abs(particle.currentPos - particle'.target) + PushStep]_vars

\* An update with the repulsion point out of reach has moved the particle
\* closer to a target it has not reached.
C12_Witness ==
  /\ particle.ticks > 0
  /\ ~particle.pushed
  /\ particle.state = "tree"
  /\ particle.currentPos # particle.target
  /\ particle.currentPos # particle.scatterPos
  /\ particle.modes = << "scatter", "tree" >>

\* C14: 60 updates after the switch to FORMATION_B the particle is within
\* 0.5 of its scatter position.
C14_WithinHalfAfter60 ==
  particle.ticks = 60 =>
     2 * Abs(particle.currentPos - particle.scatterPos) < Unit

\* C14, amended: 60 updates after the switch the distance to the scatter
\* position is at most 5% of the distance at the switch (plus the grid,
\* 0.02), and after 120 updates every coordinate is within 0.28 of it, the
\* particle within 0.5.
C14_FivePercentAfter60 ==
  /\ particle.ticks >= 60 =>
        100 * Abs(particle.currentPos - particle.scatterPos)
          <= 5 * Abs(particle.treePos - particle.scatterPos) + 2 * Unit
  /\ particle.ticks >= 120 =>
        100 * Abs(particle.currentPos - particle.scatterPos) < 28 * Unit

\* The farthest pair after 60 updates: more than 0.5 away, within 5%.
C14_Witness ==
  /\ particle.ticks = 60
  /\ Abs(particle.treePos - particle.scatterPos)
       = GrassRadius * Unit + ShellReach
  /\ 2 * Abs(particle.currentPos - particle.scatterPos) > Unit

\* C15: while the epic sequence is active, the drag of one pointer, the
\* pinch/rotate of two, the fist and the point gesture write neither the
\* rotation of the group nor the camera distance.
C15_NoMoveWhileEpic ==
  [][(isEpicSequence /\ isEpicSequence') => moved' = {}]_vars

\* C16: after the camera setup has failed the active input source is
\* touch: a pointer that lands is processed by handleTouch.
C16_TouchAfterFailure ==
  [][(visionFailed /\ pointers' > pointers)
       => (inputModeRef' = "touch" /\ touches' = pointers')]_vars

\* C17: whichever step of the camera setup is in flight when the camera
\* session is cancelled (the mode is left or the component unmounts), no
\* model handle of the session stays open and no media track stays live,
\* and each is released exactly once; after the unmount no session is left.
C17_ReleasedExactlyOnce ==
  /\ \A x \in mount.stale \cup mount.done :
        /\ x.landmarker # "open" /\ x.stream # "live"
        /\ x.closes = IF x.landmarker = "closed" THEN 1 ELSE 0
        /\ x.stops = IF x.stream = "stopped" THEN 1 ELSE 0
  /\ ~mount.mounted => mount.live = {}
  /\ \A x \in mount.live : x.closes = 0 /\ x.stops = 0

\* Sessions cancelled while getUserMedia was in flight (the cleanup closed
\* the model, initVision stopped the tracks itself), while the model was
\* being created (initVision closed it itself) and after the setup was done.
C17_Witness ==
  /\ \E x \in mount.done :
        x.pc = "returned" /\ x.landmarker = "closed" /\ x.stream = "stopped"
  /\ \E x \in mount.done :
        x.pc = "returned" /\ x.landmarker = "closed" /\ x.stream = "none"

\* C18: after the unmount no animation-frame callback and no timer or
\* promise callback of the scene setup runs.
C18_NothingRunsAfterUnmount ==
  [][~mount.mounted => mount'.ran \notin {"frame", "scan"}]_vars

\* C19: a tap of two pointers (both pressed and released within 300 ms,
\* the releases in one end event or in two) has changed the mode exactly
\* once when it is over.
C19_TwoPointerTapTogglesOnce ==
  (inputModeRef = "touch" /\ pointers = 0 /\ pressPeak = 2
     /\ sinceStart < TapMs)
     => pressToggles = 1

\* C20: the star hold fires the epic trigger only while a pointer is
\* pressed.
C20_FiresOnlyWhilePressed ==
  [][("epic" \in fired' /\ "victory" \notin applied') => pointers' >= 1]_vars

\* C21: gold mode is temporary: while ticks keep running, gold mode that is
\* on ends or is triggered again.
C21_GoldModeEnds ==
  [](isGoldMode => <>(~isGoldMode \/ "gold" \in fired))

\* C22: while the input mode is camera (the effects have run), no step
\* changes the interaction session, the repulsion point or the hold on the
\* star, and a touch event changes neither the mode, the hold progress and
\* the focus index nor rotation and camera; while the input mode is touch, no step
\* classifies a gesture and the gesture state stays as it is.
C22_SourcesExclusive ==
  [][/\ (inputModeRef = "camera" /\ inputModeRef' = "camera") =>
          /\ touches' = touches /\ startCount' = startCount
          /\ sinceStart' >= sinceStart /\ sinceLastTap' >= sinceLastTap
          /\ repulsionPoint' = repulsionPoint
          /\ isHoldingStar' = isHoldingStar
          /\ pointers' # pointers =>
                (appState' = appState /\ moved' = {} /\ fired' = {}
                   /\ holdProgress' = holdProgress
                   /\ zoomTargetIndex' = zoomTargetIndex)
     /\ (inputModeRef = "touch" /\ inputModeRef' = "touch") =>
          /\ applied' = {}
          /\ victoryTimer' = victoryTimer /\ threeTimer' = threeTimer
          /\ isPinching' = isPinching /\ lastGesture' = lastGesture]_vars

\* A pointer has landed in camera mode, with a victory hold under way, and
\* handleTouch has not recorded it.
C22_Witness ==
  /\ inputModeRef = "camera" /\ inputMode = "camera"
  /\ pointers = 1 /\ touches = 0
  /\ victoryTimer > 0

\* The glyph points the latest update could use.
LastCloud ==
  IF ~particle.last.ready THEN 0
  ELSE IF particle.last.type = "gold" THEN particle.last.gold
  ELSE IF particle.last.type \in {"silver", "gem"} THEN particle.last.silver
  ELSE 0

\* C23: the glyph override is in force exactly when the epic sequence is
\* active with its timer in the text interval, the mesh is gold, silver or
\* gem and its glyph cloud is not empty; the glyph point is the one at
\* index (particle index mod glyph count), an index of the cloud; in every
\* other case the target is the mode's position.
C23_GlyphOverride ==
  particle.ticks > 0 =>
    /\ particle.forming <=>
          /\ particle.last.isEpic
          /\ particle.last.epicTime >= TextStartTicks
          /\ particle.last.epicTime < TextEndTicks
          /\ particle.last.type \in {"gold", "silver", "gem"}
          /\ LastCloud > 0
    /\ particle.forming =>
          /\ particle.glyph = particle.last.index % LastCloud
          /\ particle.glyph >= 0 /\ particle.glyph < LastCloud
          /\ particle.target = (GlyphCoord + particle.glyph) * Unit
    /\ ~particle.forming =>
          particle.target = IF particle.state = "tree"
                            THEN particle.treePos ELSE particle.scatterPos

\* Particle 3 of the silver mesh has got point 1 of a cloud of two.
C23_Witness ==
  /\ particle.forming
  /\ particle.last.type = "silver"
  /\ particle.last.index = MaxIndex
  /\ LastCloud = MaxGlyphs
  /\ particle.glyph = MaxIndex % MaxGlyphs

\* The latest update was in the text interval, for a mesh that takes part
\* in the text, with the glyph clouds null or the cloud of the mesh empty.
NoGlyphs ==
  /\ particle.ticks > 0
  /\ FormingText(particle.last.isEpic, particle.last.epicTime)
  /\ particle.last.type \in {"gold", "silver", "gem"}
  /\ LastCloud = 0

C25_CameraRetriedOnce ==
  \A x \in mount.live \cup mount.stale \cup mount.done :
     /\ x.requests <= 2
     /\ x.requests <= x.rejected + 1
     /\ x.rejected <= x.requests
     /\ (x.error = "camera") <=> (x.rejected = 2)
     /\ x.pc = "cam1" => x.requests = 1
     /\ x.pc = "cam2" => x.requests = 2

\* A session whose constrained request was rejected and whose best-effort
\* request has got the stream, and one that has failed after both.
C25_Witness ==
  /\ \E x \in mount.done : x.rejected = 1 /\ x.requests = 2
                             /\ x.stream = "stopped" /\ x.error = "none"
  /\ \E x \in mount.live : x.error = "camera" /\ x.requests = 2

\* C26: a frame that calls the vision model comes at least 100 ms after the
\* previous prediction (and so after the previous call of the model).
C26_RateLimited ==
  detectGap # -1 => detectGap >= PredictionIntervalMs

\* The model has been called on a hand, frames having come every 1 ms.
C26_Witness ==
  /\ detectGap >= PredictionIntervalMs
  /\ "open" \in applied
  /\ lastGesture = "open" /\ prevGesture = "fist"

\* C27: a frame without a classification result (the classifier is skipped
\* or sees no hand) keeps victoryTimer, threeTimer and the pinch latch and
\* issues no mode change and no trigger; the mode changes only where the
\* epic sequence ends.
C27_NoResultNoChange ==
  [][applied' = {} =>
       /\ victoryTimer' = victoryTimer /\ threeTimer' = threeTimer
       /\ isPinching' = isPinching
       /\ fired' \cap {"epic", "select", "warn", "gold"} = {}
       /\ appState' # appState => "epicEnd" \in fired']_vars

\* The classifier has seen no hand in the middle of a victory hold.
C27_Witness ==
  /\ statusText = << "AI", "searching" >>
  /\ detectGap # -1 /\ applied = {}
  /\ victoryTimer > 0

\* ------------------------------------------------------- the dragged tap
\* C28: a tap fires select-at only for a press and release of one pointer
\* within 300 ms with no movement in between; a contact of one pointer that
\* was dragged (a move event of one touch) and released within 300 ms does
\* not select the photo card under its start point.
C28_DraggedTapNoSelect ==
  ~(pressPeak = 1 /\ pressDragged /\ pointers = 0 /\ "select" \in fired)

\* --------------------------------------------------------- the photo cards
\* Up to MaxCards photo cards, the pinch that selects one of them at random
\* and the tap that selects the one under it, in both input modes.
CardHands == {PinchHand}

AnimateCards == AnimateWith(CardHands, {TimeStep})

TouchCards == TouchWith({"start", "end"}, 1, {0})

CardLoaded == PhotoLoadedUpTo(MaxCards)

NextCards ==
  \/ AnimateCards
  \/ TouchCards
  \/ CardLoaded
  \/ CommitEffects
  \/ InitVisionDone
  \/ SwitchInputMode
  \/ ClickClose

SpecCards == Init /\ [][NextCards]_vars

\* C29: photo cards are only appended, so their number never decreases, and
\* whenever the display mode is ZOOM (the focus mode) the focus index
\* designates an existing photo card: 0 <= index < number of cards.
C29_FocusIsACard ==
  [][/\ photoCount' >= photoCount
     /\ appState' = "zoom" =>
           (0 <= zoomTargetIndex' /\ zoomTargetIndex' < photoCount')]_vars

\* The second of two cards is the focus target.
C29_Witness ==
  appState = "zoom" /\ zoomTargetIndex = 1 /\ photoCount = MaxCards

\* ------------------------------------------------------ the faulting tick
\* C30: a fault raised in any step of a tick (classification, easing,
\* drawing) does not end the animation loop: after a run of animate that
\* threw, the next frame is requested.
C30_FaultKeepsLoop ==
  [][(mount'.ran = "frame" /\ mount'.fault # "none") => mount'.raf]_vars

\* animate has run to its end after a run that threw.
C30_Witness ==
  /\ mount.afterFault /\ mount.ran = "frame" /\ mount.fault = "none"
  /\ mount.raf

\* ------------------------------------------------------ the accepted trigger
\* C31: a handler run in which the epic trigger is accepted leaves the
\* sequence active with the elapsed time counted from 0 (the frames of the
\* run), the rainbow flag set, a shake impulse of 3.0 written, the blessing
\* counter incremented by exactly 1 and the hold progress at 0; the display
\* mode is not changed.
C31_TriggerEffects ==
  [][("epic" \in fired') =>
       /\ ~isEpicSequence /\ isEpicSequence'
       /\ epicTimer' = FramesPerStep
       /\ rainbowStarMode'
       /\ shakeImpulse' = EpicShake
       /\ blessingCount' = blessingCount + 1
       /\ holdProgress' = 0
       /\ appState' = appState]_vars

\* The trigger accepted at the end of a star hold.
C31_Witness ==
  /\ "epic" \in fired /\ isHoldingStar /\ sinceStarHold >= StarHoldMs
  /\ blessingCount = 1 /\ holdProgress = 0 /\ shakeImpulse = EpicShake

\* ---------------------------------------------------------- leaving ZOOM
\* The camera source with the pinch that enters ZOOM and the open hand, one
\* photo card, the switch of the input mode and the close button.
FocusHands == {PinchHand, OpenHand}

AnimateFocus == AnimateWith(FocusHands, {TimeStep})

NextFocus ==
  \/ AnimateFocus
  \/ CommitEffects
  \/ InitVisionDone
  \/ PhotoLoaded
  \/ SwitchInputMode
  \/ ClickClose

SpecFocus == Init /\ [][NextFocus]_vars

\* C32: ZOOM (the focus mode) is left only toward TREE (formation A): no
\* step taken in ZOOM changes the mode directly to SCATTER (formation B).
C32_FocusLeftTowardTree ==
  [][appState = "zoom" => appState' \in {"zoom", "tree"}]_vars

\* ------------------------------------------------- the phases of the setup
\* The steps of initVision that is not cancelled, one per settled promise:
\* the files of the vision tasks and the model (model loading), the two
\* getUserMedia calls (camera permission), the video's first frame
\* (streaming), and the catch.
PhaseOrder ==
  { << "files", "create" >>, << "files", "failed" >>,
    << "create", "cam1" >>, << "create", "failed" >>,
    << "cam1", "video" >>, << "cam1", "cam2" >>,
    << "cam2", "video" >>, << "cam2", "failed" >>,
    << "video", "done" >> }

C34_LatchNeverRearmed ==
  [][/\ blessingCount' <= 1
     /\ hasTriggeredEpic =>
           /\ hasTriggeredEpic'
           /\ blessingCount' = blessingCount
           /\ wishPlays' = wishPlays
           /\ "epic" \notin fired'
           /\ isEpicSequence' => isEpicSequence]_vars

\* A victory hold has completed after the first sequence has ended.
C34_Witness ==
  /\ hasTriggeredEpic /\ ~isEpicSequence
  /\ "victory" \in applied /\ victoryTimer >= VictoryHoldTicks
  /\ blessingCount = 1

\* --------------------------------------------------------- the hold timers
\* The camera source classifying every PredictionIntervalMs, FramesPerTick
\* frames of the animation loop apart, with a hand that shows victory.
AnimateTimers ==
  AnimateEvery({VictoryHand}, {PredictionIntervalMs}, FramesPerTick)

NextTimers ==
  \/ AnimateTimers
  \/ CommitEffects
  \/ InitVisionDone
  \/ SwitchInputMode

SpecTimers == Init /\ [][NextTimers]_vars

\* C35: the hold timers are bounded: victoryTimer never exceeds its
\* threshold plus one increment and threeTimer never exceeds its threshold
\* plus one increment, also while the victory gesture is held during an
\* epic sequence.
C35_TimersBounded ==
  /\ victoryTimer <= VictoryHoldTicks + 1
  /\ threeTimer <= ThreeHoldTicks + 1

\* ------------------------------------------------------ the cancelled setup
\* C36: once the cleanup of a camera setup has run, that setup makes no
\* further camera request and writes no status text, whichever await it
\* was suspended at and whether the awaited promise resolves or rejects.
C36_CancelledSetupSilent ==
  \A x \in mount.stale \cup mount.done : x.late = {}

\* ------------------------------------------------------- the shared handle
\* The setups of the MediaPipe effect and the frames that read what they
\* have stored.
NextHandle ==
  \/ VisionEnter
  \/ VisionResolve
  \/ VisionLeave
  \/ Unmount
  \/ FrameScene

SpecHandle == Init /\ [][NextHandle]_vars

\* C37: the classifier is never invoked on a released model: whenever
\* handLandmarkerRef is not null it holds the model of the current setup,
\* which is open and not cancelled; no cancelled setup has its model in
\* the handle; and a frame that finds the handle null does not call the
\* classifier.
C37_HandleIsOpenModel ==
  [][/\ mount'.ref # "null" =>
           /\ mount'.ref = "current"
           /\ \E x \in mount'.live : x.landmarker = "open" /\ ~x.cancelled
     /\ (mount'.ran = "frame" /\ mount.ref = "null") =>
           (detectGap' = -1 /\ applied' = {})
     /\ (mount'.ran = "frame" /\ detectGap' # -1) =>
           /\ mount.ref = "current"
           /\ \E x \in mount.live : x.landmarker = "open"]_vars

\* The classifier has been called on the model of the second setup, the
\* first setup having closed its model itself after it was cancelled.
C37_Witness ==
  /\ mount.ran = "frame" /\ detectGap # -1 /\ mount.ref = "current"
  /\ mount.started = 2
  /\ \E x \in mount.done :
        x.pc = "returned" /\ x.landmarker = "closed" /\ x.closes = 1
                          /\ x.stream = "none"

\* ------------------------------------------------------------- the mouse
\* The mouse in touch mode: the button pressed and released (handleTouch
\* gets from e.buttons what a touch event of one finger reports), the
\* pointer leaving the container, and one photo card.
TouchMouse == TouchWith({"start", "end"}, 1, ShortSteps)

NextMouse ==
  \/ TouchMouse
  \/ MouseLeave
  \/ CommitEffects
  \/ PhotoLoaded
  \/ ClickClose

SpecMouse == Init /\ [][NextMouse]_vars

\* C38: one press and release of a single pointer produces at most one tap
\* action (select-at or burst-trigger), however many end events are
\* delivered for it.
C38_OneTapPerPress == pressTaps <= 1

\* ------------------------------------------------------ the repulsion point
\* C39: the repulsion point is null whenever no pointer is down, under every
\* interleaving of touch events and switches of the input mode.
C39_NoPointerNoRepulsion == pointers = 0 => ~repulsionPoint

\* ------------------------------------------------------ the camera distance
ZoomMin == 20
ZoomMax == 200
PointMin == 30
PointMax == 220
EpicMin == 120
EpicMax == 3000
ZoomRate == 15
PointBase == 250
PointScale == 600
CameraEase == 5
RequiredWidth == 450
RequiredHeight == 220
TanHalfFov == 466
MaxCameraSteps == 4

\* No clamp at all.
ClampNone(x, lo, hi) == x

\* Math.max(lo, Math.min(hi, x)).
Clamp(x, lo, hi) == IF x < lo THEN lo ELSE IF x > hi THEN hi ELSE x

\* handleTouch, lines 1722-1725: two touches move apart or together by
\* dDist pixels; position.z -= dDist * 0.15, then the clamp.
PinchZoom(c, dDist) ==
  [c EXCEPT !.from = c.z, !.last = "pinch",
            !.target = c.z - Trunc(dDist * ZoomRate * Unit, 100),
            !.z = Clamp(c.z - Trunc(dDist * ZoomRate * Unit, 100),
                        ZoomMin * Unit, ZoomMax * Unit),
            !.steps = @ + 1]

\* predictWebcam, lines 1052-1060: the pointing hand of size handSize
\* (thousandths of the picture): targetZ = 250 - handSize * 600, clamped,
\* and the camera eased toward it.
PointZoom(c, handSize) ==
  LET targetZ == Clamp(PointBase * Unit - Trunc(handSize * PointScale * Unit,
                                                1000),
                       PointMin * Unit, PointMax * Unit)
  IN [c EXCEPT !.from = c.z, !.last = "point", !.target = targetZ,
               !.z = Lerp(c.z, targetZ, CameraEase), !.steps = @ + 1]

\* updateRibbon, lines 1355-1374: the distance at which the text fits the
\* view of a camera with aspect ratio aspect (hundredths) and a vertical
\* field of view of 50 degrees (TanHalfFov: thousandths of tan 25 degrees),
\* at least 120, at most 3000, and the camera eased toward it.
EpicReframe(c, aspect) ==
  LET distHeight == (RequiredHeight * Unit * 1000) \div (2 * TanHalfFov)
      distWidth == (((RequiredWidth * Unit * 1000) \div (2 * TanHalfFov))
                      * 100) \div aspect
      targetZ == Max(Max(distHeight, distWidth), EpicMin * Unit)
      clampedTarget == Min(targetZ, EpicMax * Unit)
  IN [c EXCEPT !.from = c.z, !.last = "epic", !.target = clampedTarget,
               !.z = Lerp(c.z, clampedTarget, CameraEase), !.steps = @ + 1]

PinchDistances == {-2000, -100, -1, 0, 1, 100, 2000}
HandSizes == {0, 100, 300, 500}
Aspects == {1, 50, 178, 400}

InstallCamera(c) ==
  /\ camera' = c
  /\ InstallRun(Cur)
  /\ UNCHANGED << twin, gapsDiffered, particle, mount >>

CameraPinch ==
  \E dDist \in PinchDistances :
     /\ camera.steps < MaxCameraSteps
     /\ InstallCamera(PinchZoom(camera, dDist))

CameraPoint ==
  \E handSize \in HandSizes :
     /\ camera.steps < MaxCameraSteps
     /\ InstallCamera(PointZoom(camera, handSize))

CameraEpic ==
  \E aspect \in Aspects :
     /\ camera.steps < MaxCameraSteps
     /\ InstallCamera(EpicReframe(camera, aspect))

NextCamera ==
  \/ CameraPinch
  \/ CameraPoint
  \/ CameraEpic

SpecCamera == Init /\ [][NextCamera]_vars

====
